---- MODULE Spec2Model ----
(***************************************************************************)
(* A model of unisafe: URead (src/src/unisafe/uread.py) and the            *)
(* generator-to-stream adapter (src/src/unisafe/wrappers.py).              *)
(*                                                                         *)
(* Bytes are integers 0..255, byte strings are sequences of bytes, text is *)
(* a sequence of code points.                                              *)
(***************************************************************************)
EXTENDS Integers, Sequences, FiniteSets, TLC

VARIABLES
    en_smart_re,        \* module-level dict _en_smart_re (text table)
    en_smart_re_bytes,  \* module-level dict _en_smart_re_bytes (byte table)
    session,            \* the URead instance opened last (its fields)
    line,               \* the chunk handed to URead._parse
    verdict,            \* what chardet.detect answered for line
    result,             \* what URead._parse returned (or raised)
    again,              \* URead._parse applied to its own output
    pc,                 \* position of the chunk-repair run
    path_ok,            \* whether open(file, 'rb') succeeds
    unread,             \* lines of the file the generator has not read yet
    gen,                \* state of the generator URead._as_iter()
    handle,             \* state of the binary file object of _as_iter
    releases,           \* how many times that file object was closed
    stream,             \* state of the TextIOWrapper handed to the caller
    leftover,           \* IterStream.leftover
    delivered,          \* bytes readinto has returned so far, in order
    taken,              \* raw chunks the generator has read, in order
    yielded,            \* repaired chunks the generator has yielded, in order
    last,               \* the last readinto call
    err                 \* the exception the caller saw last, and where

vars == << en_smart_re, en_smart_re_bytes, session, line, verdict, result,
           again, pc, path_ok, unread, gen, handle, releases, stream,
           leftover, delivered, taken, yielded, last, err >>

sessionVars == << en_smart_re, en_smart_re_bytes, session >>
parseVars == << line, verdict, result, again, pc >>
streamVars == << path_ok, unread, gen, handle, releases, stream, leftover,
                 delivered, taken, yielded, last, err >>

(***************************************************************************)
(* Bounds of the model.                                                    *)
(***************************************************************************)
\* chunks handed to _parse are made of at most this many tokens
MaxTokens == 3
\* files read through the stream are made of at most this many tokens
MaxFileTokens == 3
\* readinto is called with buffers of 1..MaxBuf bytes
MaxBuf == 2

(***************************************************************************)
(* Byte strings.                                                           *)
(***************************************************************************)
LF == 10
CR == 13
QUOTE == << 34 >>
APOS == << 39 >>
BACKSLASH == << 92 >>
LDQ == 8220
RDQ == 8221
LSQ == 8216
RSQ == 8217
ELLIPSIS == 8230
LDQ_b == << 226, 128, 156 >>
RDQ_b == << 226, 128, 157 >>
LSQ_b == << 226, 128, 152 >>
RSQ_b == << 226, 128, 153 >>
ELLIPSIS_b == << 226, 128, 166 >>

RECURSIVE Concat(_)
Concat(ss) == IF ss = << >> THEN << >> ELSE Head(ss) \o Concat(Tail(ss))

IsPrefix(p, s) == Len(p) <= Len(s) /\ SubSeq(s, 1, Len(p)) = p

\* s[i:] and s[:i] of Python, for 0 <= i
SliceFrom(s, i) == IF i >= Len(s) THEN << >> ELSE SubSeq(s, i + 1, Len(s))
SliceTo(s, i) == IF i >= Len(s) THEN s ELSE SubSeq(s, 1, i)

IsAscii(b) == \A i \in 1..Len(b) : b[i] < 128

(***************************************************************************)
(* The UTF-8 and ASCII codecs (bytes.decode / str.encode).                 *)
(***************************************************************************)
IsCont(x) == x >= 128 /\ x <= 191

\* whether x may follow lead byte b0 of a three- or four-byte sequence
SecondOk(b0, x) ==
    CASE b0 = 224 -> x >= 160 /\ x <= 191
      [] b0 = 237 -> x >= 128 /\ x <= 159
      [] b0 = 240 -> x >= 144 /\ x <= 191
      [] b0 = 244 -> x >= 128 /\ x <= 143
      [] OTHER -> IsCont(x)

\* length of the well-formed UTF-8 sequence that starts at b[i], 0 if none
SeqLenAt(b, i) ==
    LET b0 == b[i]
        n == Len(b)
    IN  IF b0 < 128 THEN 1
        ELSE IF b0 >= 194 /\ b0 <= 223
             THEN IF i + 1 <= n /\ IsCont(b[i + 1]) THEN 2 ELSE 0
        ELSE IF b0 >= 224 /\ b0 <= 239
             THEN IF i + 2 <= n /\ SecondOk(b0, b[i + 1]) /\ IsCont(b[i + 2])
                  THEN 3 ELSE 0
        ELSE IF b0 >= 240 /\ b0 <= 244
             THEN IF i + 3 <= n /\ SecondOk(b0, b[i + 1]) /\ IsCont(b[i + 2])
                     /\ IsCont(b[i + 3])
                  THEN 4 ELSE 0
        ELSE 0

\* the code point of the well-formed sequence of k bytes at b[i]
CodePointAt(b, i, k) ==
    CASE k = 1 -> b[i]
      [] k = 2 -> (b[i] - 192) * 64 + (b[i + 1] - 128)
      [] k = 3 -> (b[i] - 224) * 4096 + (b[i + 1] - 128) * 64 + (b[i + 2] - 128)
      [] OTHER -> (b[i] - 240) * 262144 + (b[i + 1] - 128) * 4096
                  + (b[i + 2] - 128) * 64 + (b[i + 3] - 128)

RECURSIVE ValidFrom(_, _)
ValidFrom(b, i) ==
    IF i > Len(b) THEN TRUE
    ELSE LET k == SeqLenAt(b, i)
         IN  IF k = 0 THEN FALSE ELSE ValidFrom(b, i + k)

\* whether b.decode('utf-8') succeeds
ValidUTF8(b) == ValidFrom(b, 1)

RECURSIVE DecodeFrom(_, _)
DecodeFrom(b, i) ==
    IF i > Len(b) THEN << >>
    ELSE LET k == SeqLenAt(b, i)
         IN  << CodePointAt(b, i, k) >> \o DecodeFrom(b, i + k)

\* b.decode('utf-8') of a well-formed b
utf8_decode(b) == DecodeFrom(b, 1)

\* the UTF-8 bytes of one code point
EncodeCp(c) ==
    IF c < 128 THEN << c >>
    ELSE IF c < 2048 THEN << 192 + (c \div 64), 128 + (c % 64) >>
    ELSE IF c < 65536
         THEN << 224 + (c \div 4096), 128 + ((c \div 64) % 64), 128 + (c % 64) >>
    ELSE << 240 + (c \div 262144), 128 + ((c \div 4096) % 64),
            128 + ((c \div 64) % 64), 128 + (c % 64) >>

RECURSIVE utf8_encode(_)
\* text.encode('utf-8')
utf8_encode(t) ==
    IF t = << >> THEN << >> ELSE EncodeCp(Head(t)) \o utf8_encode(Tail(t))

IsAsciiCp(c) == c < 128

\* text.encode('ascii', errors='ignore')
ascii_encode_ignore(t) == SelectSeq(t, IsAsciiCp)

(***************************************************************************)
(* The typographic normalizer.                                             *)
(***************************************************************************)
\* the module-level tables as the module defines them
en_smart_re_default ==
    [c \in {LDQ, RDQ, LSQ, RSQ, ELLIPSIS} |->
        CASE c = LDQ -> QUOTE
          [] c = RDQ -> QUOTE
          [] c = LSQ -> APOS
          [] c = RSQ -> APOS
          [] OTHER -> << 46, 46, 46 >>]

en_smart_re_bytes_default ==
    [k \in {LDQ_b, RDQ_b, LSQ_b, RSQ_b} |->
        CASE k = LDQ_b -> QUOTE
          [] k = RDQ_b -> QUOTE
          [] OTHER -> APOS]

\* the keys of _en_smart_re_bytes in the order dict.items() gives them
byte_dict_keys == << LDQ_b, RDQ_b, LSQ_b, RSQ_b >>

RECURSIVE ReplaceFrom(_, _, _, _)
ReplaceFrom(b, i, k, v) ==
    IF i > Len(b) THEN << >>
    ELSE IF i + Len(k) - 1 <= Len(b) /\ SubSeq(b, i, i + Len(k) - 1) = k
         THEN v \o ReplaceFrom(b, i + Len(k), k, v)
         ELSE << b[i] >> \o ReplaceFrom(b, i + 1, k, v)

\* b.replace(k, v) for a non-empty k
bytes_replace(b, k, v) == ReplaceFrom(b, 1, k, v)

RECURSIVE ReplaceAll(_, _, _)
ReplaceAll(b, keys, dict) ==
    IF keys = << >> THEN b
    ELSE ReplaceAll(bytes_replace(b, Head(keys), dict[Head(keys)]),
                    Tail(keys), dict)

\* URead.convert_smart_b with self.byte_dict = dict
convert_smart_b(b, dict) == ReplaceAll(b, byte_dict_keys, dict)

RECURSIVE convert_smart(_, _)
\* URead.convert_smart with self.dict = dict: str.translate over the table
convert_smart(t, dict) ==
    IF t = << >> THEN << >>
    ELSE (IF Head(t) \in DOMAIN dict THEN dict[Head(t)] ELSE << Head(t) >>)
         \o convert_smart(Tail(t), dict)

(***************************************************************************)
(* URead.__init__: the session's fields and what it does to the tables.    *)
(* Paths, extension lists and escape characters are text (code points).    *)
(***************************************************************************)
\* index of the last c in t, 0 if none
LastIndex(t, c) ==
    LET S == {i \in 1..Len(t) : t[i] = c}
    IN  IF S = {} THEN 0 ELSE CHOOSE i \in S : \A j \in S : j <= i

\* os.path.splitext(path)[1]: from the last dot of the last component,
\* unless that component only has leading dots before it
splitext_ext(path) ==
    LET sep == LastIndex(path, 47)
        dot == LastIndex(path, 46)
    IN  IF dot > sep /\ (\E i \in (sep + 1)..(dot - 1) : path[i] # 46)
        THEN SubSeq(path, dot, Len(path))
        ELSE << >>

RECURSIVE SplitFrom(_, _, _)
SplitFrom(t, c, acc) ==
    IF t = << >> THEN << acc >>
    ELSE IF Head(t) = c THEN << acc >> \o SplitFrom(Tail(t), c, << >>)
    ELSE SplitFrom(Tail(t), c, Append(acc, Head(t)))

\* set(t.split(c))
split_set(t, c) ==
    LET parts == SplitFrom(t, c, << >>)
    IN  {parts[i] : i \in 1..Len(parts)}

\* escape_files: None or a string
None == [none |-> TRUE, text |-> << >>]
Str(t) == [none |-> FALSE, text |-> t]

\* whether __init__ rewrites the double-quote entries (lines 83-90)
escapes(file, is_bytes, escape_files, new_quote_escape) ==
    /\ ~is_bytes
    /\ ~escape_files.none
    /\ escape_files.text # << >>
    /\ new_quote_escape # << >>
    /\ splitext_ext(file) \in split_set(escape_files.text, 124)

\* _en_smart_re after __init__ (self.dict is the module's dict itself)
init_dict(dict, file, is_bytes, escape_files, new_quote_escape) ==
    IF escapes(file, is_bytes, escape_files, new_quote_escape)
    THEN [dict EXCEPT ![LDQ] = new_quote_escape \o QUOTE,
                      ![RDQ] = new_quote_escape \o QUOTE]
    ELSE dict

\* _en_smart_re_bytes after __init__ (self.byte_dict is the module's dict)
init_byte_dict(dict, file, is_bytes, escape_files, new_quote_escape) ==
    IF escapes(file, is_bytes, escape_files, new_quote_escape)
    THEN [dict EXCEPT ![LDQ_b] = utf8_encode(new_quote_escape) \o QUOTE,
                      ![RDQ_b] = utf8_encode(new_quote_escape) \o QUOTE]
    ELSE dict

\* x.csv, x.txt, x and .csv (a dot file without extension)
Paths ==
    { << 120, 46, 99, 115, 118 >>, << 120, 46, 116, 120, 116 >>, << 120 >>,
      << 46, 99, 115, 118 >> }

\* None, '', '.csv', '.txt', '.txt|.csv'
EscapeFiles ==
    { None, Str(<< >>), Str(<< 46, 99, 115, 118 >>),
      Str(<< 46, 116, 120, 116 >>),
      Str(<< 46, 116, 120, 116, 124, 46, 99, 115, 118 >>) }

\* '"' (the default), a backslash, ''
EscapeChars == { QUOTE, BACKSLASH, << >> }

Modes == { "Smart", "All", "None" }

\* str.lower of the modes
lower(m) ==
    CASE m = "Smart" -> "smart"
      [] m = "All" -> "all"
      [] OTHER -> "none"

NoSession == [file |-> << >>, is_bytes |-> FALSE, to_ascii |-> "None",
              escape_files |-> None, escape_char |-> << >>, live |-> FALSE]

\* the fields of the instance
NewSession(file, is_bytes, to_ascii, escape_files, new_quote_escape) ==
    [file |-> file, is_bytes |-> is_bytes, to_ascii |-> to_ascii,
     escape_files |-> escape_files, escape_char |-> new_quote_escape,
     live |-> TRUE]

\* URead(file, to_ascii, escape_files, new_quote_escape)
URead_init(file, is_bytes, to_ascii, escape_files, new_quote_escape) ==
    /\ session' = NewSession(file, is_bytes, to_ascii, escape_files,
                             new_quote_escape)
    /\ en_smart_re' = init_dict(en_smart_re, file, is_bytes, escape_files,
                                new_quote_escape)
    /\ en_smart_re_bytes' = init_byte_dict(en_smart_re_bytes, file, is_bytes,
                                           escape_files, new_quote_escape)

(***************************************************************************)
(* The Mojibake Repair Engine (UnicodeDammit.detwingle) and the best-effort*)
(* decoder (UnicodeDammit(...).unicode_markup) of unisafe.parse.dammit.    *)
(***************************************************************************)
\* Windows-1252: the code points of the bytes 0x80..0x9F (a byte the code
\* page leaves undefined keeps its own value)
cp1252_high ==
    << 8364, 129, 8218, 402, 8222, 8230, 8224, 8225, 710, 8240, 352, 8249,
       338, 141, 381, 143, 144, 8216, 8217, 8220, 8221, 8226, 8211, 8212,
       732, 8482, 353, 8250, 339, 157, 382, 376 >>

\* the code point of a byte x of 0x80..0x9F under Windows-1252
cp1252(x) == cp1252_high[x - 127]

\* whether b[i], b[i+1] is a byte 0x80..0x9F re-encoded as a code point
IsTwingled(b, i) ==
    b[i] = 194 /\ i + 1 <= Len(b) /\ b[i + 1] >= 128 /\ b[i + 1] <= 159

\* the substitution walks the chunk once: a known two-byte pattern and a
\* byte 0x80..0x9F outside any well-formed sequence become the UTF-8 of
\* their Windows-1252 character; a well-formed sequence is copied whole and
\* any other byte (0xE9 alone, a lead byte cut off from its sequence) is
\* copied as it is
RECURSIVE DetwingleFrom(_, _)
DetwingleFrom(b, i) ==
    IF i > Len(b) THEN << >>
    ELSE IF IsTwingled(b, i)
         THEN EncodeCp(cp1252(b[i + 1])) \o DetwingleFrom(b, i + 2)
    ELSE LET k == SeqLenAt(b, i)
         IN  IF k > 0
             THEN SubSeq(b, i, i + k - 1) \o DetwingleFrom(b, i + k)
             ELSE IF b[i] >= 128 /\ b[i] <= 159
                  THEN EncodeCp(cp1252(b[i])) \o DetwingleFrom(b, i + 1)
             ELSE << b[i] >> \o DetwingleFrom(b, i + 1)

\* UnicodeDammit.detwingle(b): the substitution table covers the range
\* 0x80..0x9F only, every other byte sequence is left untouched, so the
\* output is well-formed UTF-8 only if nothing else in b is ill-formed
detwingle(b) == DetwingleFrom(b, 1)

RECURSIVE DecodeReplaceFrom(_, _)
DecodeReplaceFrom(b, i) ==
    IF i > Len(b) THEN << >>
    ELSE LET k == SeqLenAt(b, i)
         IN  IF k = 0
             THEN << 65533 >> \o DecodeReplaceFrom(b, i + 1)
             ELSE << CodePointAt(b, i, k) >> \o DecodeReplaceFrom(b, i + k)

\* UnicodeDammit(b).unicode_markup: b read as UTF-8, a byte that starts no
\* well-formed sequence replaced by U+FFFD
unicode_markup(b) == DecodeReplaceFrom(b, 1)

(***************************************************************************)
(* The classifier (cchardet.detect) and URead._parse.                      *)
(***************************************************************************)
\* the verdicts _parse tells apart: 'UTF-8' with confidence > 0.9, one of
\* _win_encodings, anything else; "ascii" when the classifier is not asked
Verdicts == { "utf8", "win", "other" }

\* the verdicts the classifier can give: _parse asks it about every chunk
\* that is not ASCII and checks nothing but the encoding name and the
\* confidence, so each of the three branches can be taken for any such chunk
CanDetect(b) ==
    IF IsAscii(b) THEN { "ascii" } ELSE Verdicts

Ok(b) == [ok |-> TRUE, val |-> b]
Raised == [ok |-> FALSE, val |-> << >>]

\* b.decode('utf-8').encode('ascii', errors='ignore')
drop_non_ascii(b) ==
    IF ValidUTF8(b) THEN Ok(ascii_encode_ignore(utf8_decode(b))) ELSE Raised

\* lines 130-135 and 141-151: the normalizer applied per to_ascii
by_mode(b, to_ascii, byte_dict) ==
    IF lower(to_ascii) = "smart" THEN Ok(convert_smart_b(b, byte_dict))
    ELSE IF lower(to_ascii) = "all"
         THEN drop_non_ascii(convert_smart_b(b, byte_dict))
    ELSE Ok(b)

\* lines 154-157: the fallback of _parse
fallback(b) == Ok(utf8_encode(unicode_markup(detwingle(b))))

\* URead._parse(line) when chardet.detect(line) answers v
URead_parse(b, v, to_ascii, byte_dict) ==
    IF IsAscii(b) THEN Ok(b)
    ELSE IF v = "utf8" THEN by_mode(b, to_ascii, byte_dict)
    ELSE IF v = "win" THEN by_mode(detwingle(b), to_ascii, byte_dict)
    ELSE fallback(b)

(***************************************************************************)
(* Sessions opened one after another in one process.                       *)
(***************************************************************************)
NoLine == << >>
NoResult == [ok |-> TRUE, val |-> << >>]
NoCall == [n |-> 0, ret |-> 0, pulls |-> 0, before |-> << >>,
           chunk |-> << >>, out |-> << >>]

ParseIdle ==
    /\ line = NoLine
    /\ verdict = "ascii"
    /\ result = NoResult
    /\ again = NoResult
    /\ pc = "idle"

StreamIdle ==
    /\ path_ok = TRUE
    /\ unread = << >>
    /\ gen = "none"
    /\ handle = "none"
    /\ releases = 0
    /\ stream = "none"
    /\ leftover = << >>
    /\ delivered = << >>
    /\ taken = << >>
    /\ yielded = << >>
    /\ last = NoCall
    /\ err = "none"

InitSessions ==
    /\ en_smart_re = en_smart_re_default
    /\ en_smart_re_bytes = en_smart_re_bytes_default
    /\ session = NoSession
    /\ ParseIdle
    /\ StreamIdle

\* URead(...) with any arguments, after the sessions opened before
OpenSession ==
    \E file \in Paths, is_bytes \in BOOLEAN, to_ascii \in Modes,
       escape_files \in EscapeFiles, esc \in EscapeChars :
        /\ URead_init(file, is_bytes, to_ascii, escape_files, esc)
        /\ UNCHANGED << parseVars, streamVars >>

NextSessions == OpenSession

SpecSessions == InitSessions /\ [][NextSessions]_vars

(***************************************************************************)
(* One chunk through URead._parse, and its output through _parse again.    *)
(***************************************************************************)
SNOWMAN_b == << 226, 152, 131 >>

\* 'A', LF, the smart punctuation in UTF-8, a snowman, the Windows-1252
\* bytes of a left double quote and of e-acute, a twingled left double
\* quote, a lead byte cut off from its sequence
Tokens ==
    { << 65 >>, << LF >>, LDQ_b, RDQ_b, LSQ_b, ELLIPSIS_b, SNOWMAN_b,
      << 147 >>, << 233 >>, << 194, 147 >>, << 226 >> }

TokenSeqs(T, n) == UNION { [1..k -> T] : k \in 1..n }

Chunks == { Concat(ts) : ts \in TokenSeqs(Tokens, MaxTokens) }

\* the session of a fresh process: uread(file, to_ascii) on x.csv or x.txt
InitParse ==
    \E file \in { << 120, 46, 99, 115, 118 >>, << 120, 46, 116, 120, 116 >> },
       to_ascii \in Modes :
        /\ session = NewSession(file, FALSE, to_ascii,
                                Str(<< 46, 99, 115, 118 >>), QUOTE)
        /\ en_smart_re = init_dict(en_smart_re_default, file, FALSE,
                                   Str(<< 46, 99, 115, 118 >>), QUOTE)
        /\ en_smart_re_bytes = init_byte_dict(en_smart_re_bytes_default, file,
                                   FALSE, Str(<< 46, 99, 115, 118 >>), QUOTE)
        /\ line \in Chunks
        /\ verdict = "ascii"
        /\ result = NoResult
        /\ again = NoResult
        /\ pc = "ready"
        /\ StreamIdle

\* self._parse(line)
DoParse ==
    /\ pc = "ready"
    /\ \E v \in CanDetect(line) :
        /\ verdict' = v
        /\ result' = URead_parse(line, v, session.to_ascii, en_smart_re_bytes)
    /\ pc' = "parsed"
    /\ UNCHANGED << line, again, sessionVars, streamVars >>

\* self._parse(self._parse(line)): the classifier is a function of the
\* bytes, so the same bytes get the same verdict
DoReparse ==
    /\ pc = "parsed"
    /\ result.ok
    /\ \E v \in CanDetect(result.val) :
        /\ result.val = line => v = verdict
        /\ again' = URead_parse(result.val, v, session.to_ascii,
                                en_smart_re_bytes)
    /\ pc' = "reparsed"
    /\ UNCHANGED << line, verdict, result, sessionVars, streamVars >>

NextParse == DoParse \/ DoReparse

SpecParse == InitParse /\ [][NextParse]_vars

(***************************************************************************)
(* Properties of the sessions and of the chunk repair.                     *)
(***************************************************************************)
\* whether the session's own arguments ask for escaped double quotes
OwnEscape(s) ==
    escapes(s.file, s.is_bytes, s.escape_files, s.escape_char)

\* C1: in every session, after any earlier sessions, both normalizers turn
\* a left or right double quotation mark into escape-char + '"' if and only
\* if the session's own escape_files is enabled and holds the extension of
\* the session's file, and into a bare '"' otherwise.
C1_EscapeIsPerSession ==
    session.live =>
        LET want == IF OwnEscape(session)
                    THEN session.escape_char \o QUOTE ELSE QUOTE
        IN  /\ convert_smart_b(LDQ_b, en_smart_re_bytes) = utf8_encode(want)
            /\ convert_smart_b(RDQ_b, en_smart_re_bytes) = utf8_encode(want)
            /\ convert_smart(<< LDQ >>, en_smart_re) = want
            /\ convert_smart(<< RDQ >>, en_smart_re) = want

\* C2: with to_ascii = 'All', whatever the classifier answered, the bytes
\* _parse returns are all in the ASCII range.
C2_AllModeIsAscii ==
    (pc \in { "parsed", "reparsed" } /\ lower(session.to_ascii) = "all"
     /\ result.ok)
        => IsAscii(result.val)

\* C3: for every chunk, mode and verdict, _parse returns without raising
\* and what it returns is well-formed UTF-8.
C3_ParseYieldsUTF8 ==
    /\ pc \in { "parsed", "reparsed" } => result.ok /\ ValidUTF8(result.val)
    /\ pc = "reparsed" => again.ok /\ ValidUTF8(again.val)

\* C7: _parse applied to its own output returns that output unchanged.
C7_ParseIdempotent == pc = "reparsed" => again = result

\* what C8 says the normalizer does to one character
SmartFold(c) ==
    CASE c = LDQ -> QUOTE
      [] c = RDQ -> QUOTE
      [] c = LSQ -> APOS
      [] c = RSQ -> APOS
      [] c = ELLIPSIS -> << 46, 46, 46 >>
      [] OTHER -> << c >>

RECURSIVE SmartFoldAll(_)
SmartFoldAll(t) ==
    IF t = << >> THEN << >> ELSE SmartFold(Head(t)) \o SmartFoldAll(Tail(t))

\* C8: in Smart mode with no escape rule matching, a non-ASCII chunk
\* classified as UTF-8 or as a Windows code page comes out as the repaired
\* chunk with the double quotation marks, the single quotation marks and
\* the ellipsis folded to ASCII and nothing else changed, and the byte
\* normalizer agrees with the text normalizer on the same content (the
\* content being the text of the repaired chunk, where it is text).
C8_SmartFoldsQuotesAndEllipsis ==
    (/\ pc = "parsed"
     /\ lower(session.to_ascii) = "smart"
     /\ ~OwnEscape(session)
     /\ verdict \in { "utf8", "win" })
        => LET repaired == IF verdict = "win" THEN detwingle(line) ELSE line
           IN  /\ result.ok
               /\ ValidUTF8(repaired) =>
                    /\ result.val
                         = utf8_encode(SmartFoldAll(utf8_decode(repaired)))
                    /\ convert_smart_b(repaired, en_smart_re_bytes)
                         = utf8_encode(convert_smart(utf8_decode(repaired),
                                                     en_smart_re))

(***************************************************************************)
(* The stream: uread(), the generator _as_iter, IterStream.readinto and    *)
(* the text layer gen_to_textio puts over it.                              *)
(***************************************************************************)
RECURSIVE FileLinesFrom(_, _, _)
FileLinesFrom(d, i, acc) ==
    IF i > Len(d) THEN (IF acc = << >> THEN << >> ELSE << acc >>)
    ELSE IF d[i] = LF
         THEN << Append(acc, LF) >> \o FileLinesFrom(d, i + 1, << >>)
    ELSE FileLinesFrom(d, i + 1, Append(acc, d[i]))

\* the lines `for line in f` gives for a binary file holding d: each ends
\* with its LF, the last one may have none
file_lines(d) == FileLinesFrom(d, 1, << >>)

RECURSIVE TextLinesFrom(_, _, _)
TextLinesFrom(t, i, acc) ==
    IF i > Len(t) THEN (IF acc = << >> THEN << >> ELSE << acc >>)
    ELSE IF t[i] = LF
         THEN << Append(acc, LF) >> \o TextLinesFrom(t, i + 1, << >>)
    ELSE IF t[i] = CR
         THEN << Append(acc, LF) >>
              \o TextLinesFrom(t, IF i + 1 <= Len(t) /\ t[i + 1] = LF
                                  THEN i + 2 ELSE i + 1, << >>)
    ELSE TextLinesFrom(t, i + 1, Append(acc, t[i]))

\* the lines io.TextIOWrapper(..., encoding='utf-8') yields for the text t
\* (newline=None: a line ends at LF, CR or CR LF, each delivered as LF)
text_lines(t) == TextLinesFrom(t, 1, << >>)

\* 'A', LF, CR, e-acute in UTF-8 and in Windows-1252, a left double quote
\* in UTF-8 and in Windows-1252
FileTokens ==
    { << 65 >>, << LF >>, << CR >>, << 195, 169 >>, << 233 >>, LDQ_b,
      << 147 >> }

Files ==
    { << >> } \cup { Concat(ts) : ts \in TokenSeqs(FileTokens, MaxFileTokens) }

InitStream ==
    /\ en_smart_re = en_smart_re_default
    /\ en_smart_re_bytes = en_smart_re_bytes_default
    /\ session = NoSession
    /\ ParseIdle
    /\ path_ok \in BOOLEAN
    /\ \E d \in Files : unread = IF path_ok THEN file_lines(d) ELSE << >>
    /\ gen = "none"
    /\ handle = "none"
    /\ releases = 0
    /\ stream = "none"
    /\ leftover = << >>
    /\ delivered = << >>
    /\ taken = << >>
    /\ yielded = << >>
    /\ last = NoCall
    /\ err = "none"

\* uread(file, to_ascii): __enter__ builds the generator object and wraps
\* it, __exit__ does nothing, the wrapper is returned; no code of _as_iter
\* has run yet
Uread ==
    /\ stream = "none"
    /\ \E to_ascii \in Modes :
        URead_init(<< 120, 46, 116, 120, 116 >>, FALSE, to_ascii,
                   Str(<< 46, 99, 115, 118 >>), QUOTE)
    /\ gen' = "created"
    /\ stream' = "open"
    /\ UNCHANGED << parseVars, path_ok, unread, handle, releases, leftover,
                    delivered, taken, yielded, last, err >>

\* next(iterable) on the generator of _as_iter, the classifier answering v
\* for the line read: what the caller gets and what becomes of the
\* generator and of the file object
as_iter_next(v) ==
    IF gen \in { "done", "raised" }
    THEN [kind |-> "stop", chunk |-> << >>, gen |-> gen, handle |-> handle,
          closed |-> 0, read |-> 0]
    ELSE IF gen = "created" /\ ~path_ok
    THEN [kind |-> "FileNotFoundError", chunk |-> << >>, gen |-> "raised",
          handle |-> handle, closed |-> 0, read |-> 0]
    ELSE IF unread = << >>
    THEN [kind |-> "stop", chunk |-> << >>, gen |-> "done",
          handle |-> "closed", closed |-> 1, read |-> 0]
    ELSE LET r == URead_parse(Head(unread), v, session.to_ascii,
                              en_smart_re_bytes)
         IN  IF r.ok
             THEN [kind |-> "chunk", chunk |-> r.val, gen |-> "suspended",
                   handle |-> "open", closed |-> 0, read |-> 1]
             ELSE [kind |-> "UnicodeDecodeError", chunk |-> << >>,
                   gen |-> "raised", handle |-> "closed", closed |-> 1,
                   read |-> 1]

\* chunk[:length] and chunk[length:] of readinto
readinto_output(chunk, length) == SliceTo(chunk, length)

\* a remainder that skips one byte
readinto_leftover_skips(chunk, length) == SliceFrom(chunk, length + 1)

readinto_leftover(chunk, length) == SliceFrom(chunk, length)

\* `self.leftover or next(iterable)`: whether readinto asks the generator
\* for a chunk (None and b'' are both false)
readinto_pulls(left) == left = << >>

\* IterStream.readinto(b) with len(b) = n, reached through the open stream
ReadInto ==
    /\ stream = "open"
    /\ \E n \in 1..MaxBuf :
       \E v \in (IF readinto_pulls(leftover) /\ gen \in { "created", "suspended" }
                    /\ unread # << >>
                 THEN CanDetect(Head(unread)) ELSE { "ascii" }) :
        LET pulls == readinto_pulls(leftover)
            got == IF pulls THEN as_iter_next(v)
                   ELSE [kind |-> "chunk", chunk |-> leftover, gen |-> gen,
                         handle |-> handle, closed |-> 0, read |-> 0]
            out == readinto_output(got.chunk, n)
        IN  /\ gen' = got.gen
            /\ handle' = got.handle
            /\ releases' = releases + got.closed
            /\ taken' = IF got.read = 1 THEN Append(taken, Head(unread))
                        ELSE taken
            /\ unread' = IF got.read = 1 THEN Tail(unread) ELSE unread
            /\ yielded' = IF pulls /\ got.kind = "chunk"
                          THEN Append(yielded, got.chunk) ELSE yielded
            /\ IF got.kind = "chunk"
               THEN /\ leftover' = readinto_leftover(got.chunk, n)
                    /\ delivered' = delivered \o out
                    /\ last' = [n |-> n, ret |-> Len(out),
                                pulls |-> IF pulls THEN 1 ELSE 0,
                                before |-> leftover, chunk |-> got.chunk,
                                out |-> out]
                    /\ err' = "none"
               ELSE IF got.kind = "stop"
               THEN /\ last' = [n |-> n, ret |-> 0, pulls |-> 0,
                                before |-> leftover, chunk |-> << >>,
                                out |-> << >>]
                    /\ err' = "none"
                    /\ UNCHANGED << leftover, delivered >>
               ELSE /\ err' = got.kind
                    /\ UNCHANGED << leftover, delivered, last >>
    /\ UNCHANGED << sessionVars, parseVars, path_ok, stream >>

\* TextIOWrapper.close(): closes the BufferedReader and the IterStream; a
\* closed stream is left as it is
Close ==
    /\ stream \in { "open", "closed" }
    /\ stream' = "closed"
    /\ UNCHANGED << sessionVars, parseVars, path_ok, unread, gen, handle,
                    releases, leftover, delivered, taken, yielded, last, err >>

\* read, readline or iteration on the closed stream
ReadClosed ==
    /\ stream = "closed"
    /\ err' = "ValueError"
    /\ UNCHANGED << sessionVars, parseVars, path_ok, unread, gen, handle,
                    releases, stream, leftover, delivered, taken, yielded,
                    last >>

\* the caller drops the closed stream and the interpreter finalizes the
\* generator: a generator suspended at its yield leaves the with block
Finalize ==
    /\ stream = "closed"
    /\ stream' = "dropped"
    /\ gen' = "done"
    /\ handle' = IF gen = "suspended" THEN "closed" ELSE handle
    /\ releases' = IF gen = "suspended" THEN releases + 1 ELSE releases
    /\ UNCHANGED << sessionVars, parseVars, path_ok, unread, leftover,
                    delivered, taken, yielded, last, err >>

NextStream == Uread \/ ReadInto \/ Close \/ ReadClosed \/ Finalize

SpecStream == InitStream /\ [][NextStream]_vars

(***************************************************************************)
(* Properties of the stream.                                               *)
(***************************************************************************)
\* C4: when the path cannot be opened for binary reading, the error is
\* raised by the open call: no stream is handed to the caller and no read
\* raises the not-found error.
C4_OpenErrorAtConstruction ==
    ~path_ok => (stream = "none" /\ err # "FileNotFoundError")

\* C5: the file handle is released exactly once on every exit path: it is
\* closed once the source is exhausted, it is closed in every state where
\* the stream is closed, and it is never released twice.
C5_HandleReleasedOnClose ==
    /\ releases <= 1
    /\ gen = "done" => handle # "open"
    /\ stream \in { "closed", "dropped" } => handle # "open"

\* the raw stream has answered a read with zero bytes: the text layer is at
\* its end of file
AtEOF == last.n > 0 /\ last.ret = 0

\* the lines the text layer yields are the decoded repaired chunks
LinesAreChunks ==
    /\ ValidUTF8(delivered)
    /\ \A i \in 1..Len(yielded) : ValidUTF8(yielded[i])
    /\ Len(yielded) = Len(taken)
    /\ LET lines == text_lines(utf8_decode(delivered))
       IN  /\ Len(lines) = Len(taken)
           /\ \A i \in 1..Len(lines) : lines[i] = utf8_decode(yielded[i])

\* C6: for every file and mode, once the stream is read to its end it has
\* yielded as many lines as the chunk source read chunks, and line i is the
\* decoded repair of chunk i.
C6_LinesAreChunksAlways == AtEOF => LinesAreChunks

\* C9: the bytes returned so far are a prefix of the chunks yielded so far,
\* in order, and together with the leftover they are exactly these chunks;
\* a call returns at most N bytes, asks for at most one chunk and only
\* when the leftover is empty, and keeps the rest of its chunk as leftover.
C9_ReadintoIsFIFO ==
    /\ IsPrefix(delivered, Concat(yielded))
    /\ delivered \o leftover = Concat(yielded)
    /\ last.ret <= last.n
    /\ last.ret = Len(last.out)
    /\ last.pulls \in { 0, 1 }
    /\ last.pulls = 1 => last.before = << >>
    /\ last.pulls = 0 /\ last.ret > 0 => last.chunk = last.before
    /\ last.chunk = last.out \o leftover

\* a second chunk read in three calls, the leftover carried over twice
C9_Witness ==
    /\ Len(yielded) >= 2
    /\ last.pulls = 0
    /\ last.ret > 0
    /\ last.before # last.chunk \/ leftover # << >>
    /\ leftover # << >>

\* C10: a read into a non-empty buffer returns zero bytes only at the end
\* of the stream: the leftover is empty, the chunk source is exhausted (the
\* generator has finished) and no line of the file is left unread.
C10_ZeroOnlyAtEnd ==
    AtEOF => /\ leftover = << >>
             /\ gen \in { "done", "raised" }
             /\ unread = << >>

\* C10 in its weakest reading: a read returns zero bytes only when no line
\* of the file is left unread.
C10_ZeroOnlyWhenNothingUnread == AtEOF => unread = << >>

====
